---- MODULE Spec2Model ----
(***************************************************************************)
(* Model of scripts/register-oauth-client.py: the one-shot bootstrap that  *)
(* logs in to Janua with admin credentials and registers the enclii-cli    *)
(* OAuth client.  One run of main() is modelled statement by statement:     *)
(* each print is a step, each HTTP call is the steps "function entered",   *)
(* "request sent", "response arrived" and "function returned or raised",   *)
(* ctrl-C (SIGINT) can end the run between any two steps, and the process  *)
(* ends in a step of its own after main is left.                           *)
(***************************************************************************)
EXTENDS Integers, Sequences, FiniteSets, TLC

\* out holds the complete lines of standard output and line the text written
\* to it since the last newline; tty says whether standard input and standard
\* output are both terminals.  todo holds the lines that the print statements
\* between here and the next statement of another kind will write, and
\* pending the exception that the statement after them raises.  ending is
\* the status the interpreter shuts down with once main is left, exitStatus
\* the status the process ended with, and uncaught the exception that left
\* main.
VARIABLES pc, JANUA_API, env, tty, email, password, token, client,
          config, requests, loginResp, regResp, loginRes, regRes,
          out, line, todo, pending, ending, exitStatus, uncaught

vars == <<pc, JANUA_API, env, tty, email, password, token, client,
          config, requests, loginResp, regResp, loginRes, regRes,
          out, line, todo, pending, ending, exitStatus, uncaught>>

(***************************************************************************)
(* Python values.  JSON documents and Python objects are tagged records.   *)
(***************************************************************************)
None == [t |-> "NoneType"]
Str(s) == [t |-> "str", v |-> s]
PyInt(n) == [t |-> "int", v |-> n]
List0 == [t |-> "list"]
Dict(f) == [t |-> "dict", f |-> f]
EmptyDict == Dict(<<>>)

\* Python truth value of an object (bool(x)).
Truthy(x) ==
    CASE x.t = "NoneType" -> FALSE
      [] x.t = "str" -> x.v # ""
      [] x.t = "int" -> x.v # 0
      [] x.t = "list" -> FALSE
      [] x.t = "dict" -> DOMAIN x.f # {}

Digit(d) == CASE d = 0 -> "0" [] d = 1 -> "1" [] d = 2 -> "2" [] d = 3 -> "3"
              [] d = 4 -> "4" [] d = 5 -> "5" [] d = 6 -> "6" [] d = 7 -> "7"
              [] d = 8 -> "8" [] d = 9 -> "9"

RECURSIVE IntStr(_)
IntStr(n) == IF n < 10 THEN Digit(n) ELSE IntStr(n \div 10) \o Digit(n % 10)

\* What an f-string substitutes for "{x}" (format(x, "")).
Format(x) ==
    CASE x.t = "NoneType" -> "None"
      [] x.t = "str" -> x.v
      [] x.t = "int" -> IntStr(x.v)
      [] x.t = "list" -> "[]"

\* Outcomes of a call: a returned value or a raised exception.
Return(v) == [kind |-> "return", val |-> v]
Raise(type, msg) == [kind |-> "raise", type |-> type, msg |-> msg]
NotCalled == [kind |-> "none"]

\* x.get(...) on an object that is not a dict.
NoGet(x) == Raise("AttributeError", "'" \o x.t \o "' object has no attribute 'get'")

\* dict.get(key, default)
Get(d, key, default) == IF key \in DOMAIN d.f THEN d.f[key] ELSE default

(***************************************************************************)
(* HTTP responses: a status code and the body text.  resp.json() parses    *)
(* the text; the bodies the model draws responses from are listed with     *)
(* their parse.                                                            *)
(***************************************************************************)
NotJson == [t |-> "invalid"]

BodyTable ==
    { <<"{\"access_token\": \"T\"}", Dict([access_token |-> Str("T")])>>,
      <<"{\"token\": \"U\"}", Dict([token |-> Str("U")])>>,
      <<"{\"access_token\": \"T\", \"token\": \"U\"}",
        Dict([access_token |-> Str("T"), token |-> Str("U")])>>,
      <<"{\"access_token\": \"\", \"token\": \"U\"}",
        Dict([access_token |-> Str(""), token |-> Str("U")])>>,
      <<"{\"access_token\": null}", Dict([access_token |-> None])>>,
      <<"{\"token\": \"\"}", Dict([token |-> Str("")])>>,
      <<"{\"access_token\": 7}", Dict([access_token |-> PyInt(7)])>>,
      <<"{}", EmptyDict>>,
      <<"[]", List0>>,
      <<"null", None>>,
      <<"Internal Server Error", NotJson>>,
      <<"", NotJson>>,
      <<"{\"error\": {\"message\": \"bad creds\"}}",
        Dict([error |-> Dict([message |-> Str("bad creds")])])>>,
      <<"{\"error\": {\"message\": null}}",
        Dict([error |-> Dict([message |-> None])])>>,
      <<"{\"error\": {\"code\": 13}}",
        Dict([error |-> Dict([code |-> PyInt(13)])])>>,
      <<"{\"error\": \"invalid_grant\"}", Dict([error |-> Str("invalid_grant")])>>,
      <<"{\"error\": null}", Dict([error |-> None])>>,
      <<"{\"detail\": \"Forbidden\"}", Dict([detail |-> Str("Forbidden")])>>,
      <<"{\"client_id\": \"abc\", \"client_secret\": \"xyz\"}",
        Dict([client_id |-> Str("abc"), client_secret |-> Str("xyz")])>>,
      <<"{\"client_id\": \"abc\"}", Dict([client_id |-> Str("abc")])>>,
      <<"{\"client_id\": \"abc\", \"client_secret\": null}",
        Dict([client_id |-> Str("abc"), client_secret |-> None])>>,
      <<"{\"client_id\": \"abc\", \"client_secret\": \"\"}",
        Dict([client_id |-> Str("abc"), client_secret |-> Str("")])>>,
      <<"{\"client_secret\": \"xyz\"}", Dict([client_secret |-> Str("xyz")])>> }

Bodies == { b[1] : b \in BodyTable }

\* json.loads(text): the parsed document, or NotJson when the text is not JSON.
Loads(text) == (CHOOSE b \in BodyTable : b[1] = text)[2]

\* resp.json()
Json(resp) ==
    IF Loads(resp.text) = NotJson
    THEN Raise("JSONDecodeError", "Expecting value: line 1 column 1 (char 0)")
    ELSE Return(Loads(resp.text))

Response(status, text) == [status_code |-> status, text |-> text]
NoResponse == [status_code |-> 0, text |-> ""]

(***************************************************************************)
(* Module-level constants of the script.                                   *)
(***************************************************************************)
DefaultApi == "https://api.janua.dev"
LoginPath == "/api/v1/auth/login"
RegisterPath == "/api/v1/oauth/clients"

OAUTH_CLIENT_CONFIG ==
    [name |-> "Enclii CLI",
     description |-> "Official Enclii command-line interface for deployment and management",
     redirect_uris |-> <<"http://127.0.0.1/callback">>,
     allowed_scopes |-> <<"openid", "profile", "email", "offline_access">>,
     grant_types |-> <<"authorization_code", "refresh_token">>,
     is_confidential |-> FALSE,
     website_url |-> "https://enclii.dev"]

HTTP_OK == 200
HTTP_CREATED == 201
HTTP_CONFLICT == 409

\* ", ".join(xs)
RECURSIVE Join(_)
Join(xs) == IF Len(xs) = 0 THEN ""
            ELSE IF Len(xs) = 1 THEN xs[1]
            ELSE xs[1] \o ", " \o Join(Tail(xs))

\* str(b) for a bool
BoolStr(b) == IF b THEN "True" ELSE "False"

(***************************************************************************)
(* login(): the request it posts and what it does with the response.       *)
(***************************************************************************)
LoginRequestOf(api, e, p) ==
    [url |-> api \o LoginPath,
     headers |-> <<>>,
     json |-> [email |-> e, password |-> p]]

login(resp) ==
    LET j == Json(resp) IN
    IF resp.status_code # HTTP_OK
    THEN IF j.kind = "raise" THEN j
         ELSE IF j.val.t # "dict" THEN NoGet(j.val)
         ELSE LET error == Get(j.val, "error", EmptyDict) IN
              IF error.t # "dict" THEN NoGet(error)
              ELSE Raise("Exception",
                         "Login failed: " \o Format(Get(error, "message", Str(resp.text))))
    ELSE IF j.kind = "raise" THEN j
         ELSE IF j.val.t # "dict" THEN NoGet(j.val)
         ELSE LET a == Get(j.val, "access_token", None) IN
              Return(IF Truthy(a) THEN a ELSE Get(j.val, "token", None))

(***************************************************************************)
(* create_oauth_client(): the request it posts and what it does with the   *)
(* response.                                                               *)
(***************************************************************************)
\* The registration request with the payload altered on the way out.
RegisterRequestOf_Confidential(api, tok, cfg) ==
    [url |-> api \o RegisterPath,
     headers |-> [Authorization |-> "Bearer " \o Format(tok)],
     json |-> [cfg EXCEPT !.is_confidential = TRUE]]

RegisterRequestOf(api, tok, cfg) ==
    [url |-> api \o RegisterPath,
     headers |-> [Authorization |-> "Bearer " \o Format(tok)],
     json |-> cfg]

create_oauth_client(resp) ==
    LET j == Json(resp) IN
    IF resp.status_code = HTTP_CREATED
    THEN j
    ELSE IF resp.status_code = HTTP_CONFLICT
    THEN Raise("Exception", "OAuth client already exists")
    ELSE IF j.kind = "raise" THEN j
         ELSE IF j.val.t # "dict" THEN NoGet(j.val)
         ELSE LET error == Get(j.val, "error", EmptyDict) IN
              IF error.t # "dict" THEN NoGet(error)
              ELSE Raise("Exception",
                         "Failed to create client: "
                            \o Format(Get(error, "message", Str(resp.text))))

(***************************************************************************)
(* main(): console output of each stretch of straight-line code.           *)
(***************************************************************************)
BannerLines ==
    <<"Enclii CLI OAuth Client Registration",
      "========================================",
      "">>

CreatingLines(cfg) ==
    <<"",
      "Creating OAuth client...",
      "  Name: " \o cfg.name,
      "  Public client (PKCE): " \o BoolStr(~cfg.is_confidential),
      "  Scopes: " \o Join(cfg.allowed_scopes),
      "">>

SecretNote == "  NOTE: Save the client_secret now - it won't be shown again!"

\* The body of the second try block after create_oauth_client returned c:
\* the lines printed, and the exception that cut it short (if any).
ClientReport(c) ==
    LET head == <<"OAuth client created successfully!", "", "Client Details:">> IN
    IF c.t # "dict"
    THEN [lines |-> head, exc |-> NoGet(c)]
    ELSE LET id == Get(c, "client_id", None)
             secret == Get(c, "client_secret", None)
         IN [lines |-> head
                        \o <<"  client_id: " \o Format(id)>>
                        \o (IF Truthy(secret)
                            THEN <<"  client_secret: " \o Format(secret), "", SecretNote>>
                            ELSE <<>>)
                        \o <<"",
                             "The enclii-cli OAuth client is now registered.",
                             "Users can authenticate with: enclii login">>,
             exc |-> NotCalled]

ErrorLine(e) == "Error: " \o e.msg

(***************************************************************************)
(* Inputs of a run: the environment, what the operator types, and the      *)
(* responses of the server.                                                *)
(***************************************************************************)
ApiUrls == {DefaultApi, "http://localhost:8000"}
EnvEmails == {None, Str(""), Str("admin@madfam.io")}
EnvPasswords == {None, Str("xxx")}
TypedEmails == {"admin@madfam.io", ""}
TypedPasswords == {"xxx", ""}
LoginStatuses == {HTTP_OK, 401, 500}
RegisterStatuses == {HTTP_CREATED, HTTP_CONFLICT, HTTP_OK, 500}

\* The connection requests opens for each base URL: pool class, connection
\* class, host and port.
ApiTable ==
    { <<DefaultApi, "HTTPSConnectionPool", "HTTPSConnection", "api.janua.dev", "443">>,
      <<"http://localhost:8000", "HTTPConnectionPool", "HTTPConnection", "localhost", "8000">> }
ApiOf(api) == CHOOSE a \in ApiTable : a[1] = api

\* Why a connection could not be opened, and the package the installed
\* requests takes its connection classes from.
TransportCauses == {"[Errno 111] Connection refused",
                    "[Errno -2] Name or service not known"}
ConnectionModules == {"urllib3.connection", "pip._vendor.urllib3.connection"}

\* requests.post() raising instead of returning a response: str(e) names the
\* host, the port and the path.  The address in the repr of the connection
\* object differs from run to run and is written 0x... here.
TransportError(api, path, module, cause) ==
    LET a == ApiOf(api) IN
    Raise("ConnectionError",
          a[2] \o "(host='" \o a[4] \o "', port=" \o a[5]
             \o "): Max retries exceeded with url: " \o path
             \o " (Caused by NewConnectionError('<" \o module \o "." \o a[3]
             \o " object at 0x...>: Failed to establish a new connection: "
             \o cause \o "'))")

\* input() at end of input: on a terminal the EOFError has no message.
EmailEndOfInput(terminal) ==
    Raise("EOFError", IF terminal THEN "" ELSE "EOF when reading a line")
\* getpass() at end of input: EOFError without a message.
PasswordEndOfInput == Raise("EOFError", "")
\* ctrl-C at a prompt.
Interrupted == Raise("KeyboardInterrupt", "")

EmailPrompt == "Janua admin email: "

Unbound == [t |-> "unbound"]
Running == -1
\* Status of a process that died of SIGINT, as a shell reports it.
KilledBySigint == 130

Init ==
    /\ pc = "start"
    /\ JANUA_API \in ApiUrls
    /\ env \in [JANUA_ADMIN_EMAIL : EnvEmails, JANUA_ADMIN_PASSWORD : EnvPasswords]
    /\ tty \in BOOLEAN
    /\ email = Unbound
    /\ password = Unbound
    /\ token = Unbound
    /\ client = Unbound
    /\ config = OAUTH_CLIENT_CONFIG
    /\ requests = <<>>
    /\ loginResp = NoResponse
    /\ regResp = NoResponse
    /\ loginRes = NotCalled
    /\ regRes = NotCalled
    /\ out = <<>>
    /\ line = ""
    /\ todo = <<>>
    /\ pending = NotCalled
    /\ ending = Running
    /\ exitStatus = Running
    /\ uncaught = NotCalled

\* The run is in main: the interpreter has not begun to shut down.
InMain == pc \notin {"shutdown", "exited"}

\* main is left: by sys.exit(code), which only raises SystemExit, by falling
\* off its end (code 0), or by an exception nothing caught.  The interpreter
\* begins to shut down; code is the status it will end with when nothing
\* else happens.
Exit(code) ==
    /\ pc' = "shutdown"
    /\ ending' = code

\* The statement at hand is reached: the prints before it have run.
At(label) == pc = label /\ todo = <<>>

\* One print statement: the next line goes to standard output.
PrintLine ==
    /\ InMain
    /\ todo # <<>>
    /\ out' = Append(out, line \o Head(todo))
    /\ line' = ""
    /\ todo' = Tail(todo)
    /\ UNCHANGED <<pc, JANUA_API, env, tty, email, password, token, client, config,
                   requests, loginResp, regResp, loginRes, regRes, pending,
                   ending, exitStatus, uncaught>>

\* main, lines 69-71: the banner.
Banner ==
    /\ At("start")
    /\ todo' = BannerLines
    /\ pc' = "getenv_email"
    /\ UNCHANGED <<JANUA_API, env, tty, email, password, token, client, config,
                   requests, loginResp, regResp, loginRes, regRes, out, line,
                   pending, ending, exitStatus, uncaught>>

\* main, line 74: the email from the environment.
GetEmail ==
    /\ At("getenv_email")
    /\ email' = env.JANUA_ADMIN_EMAIL
    /\ pc' = "getenv_password"
    /\ UNCHANGED <<JANUA_API, env, tty, password, token, client, config, requests,
                   loginResp, regResp, loginRes, regRes, out, line, todo, pending,
                   ending, exitStatus, uncaught>>

\* main, line 75: the password from the environment.
GetPassword ==
    /\ At("getenv_password")
    /\ password' = env.JANUA_ADMIN_PASSWORD
    /\ pc' = "email"
    /\ UNCHANGED <<JANUA_API, env, tty, email, token, client, config, requests,
                   loginResp, regResp, loginRes, regRes, out, line, todo, pending,
                   ending, exitStatus, uncaught>>

\* input(prompt) shows the prompt: on standard error when standard input and
\* output are terminals, else on standard output, without a newline.
AfterEmailPrompt(l) == IF tty THEN l ELSE l \o EmailPrompt

\* main, lines 77-78: the environment gave no email; input() writes the
\* prompt and then waits for a line.
PromptEmail ==
    /\ At("email")
    /\ ~Truthy(email)
    /\ line' = AfterEmailPrompt(line)
    /\ pc' = "email_wait"
    /\ UNCHANGED <<JANUA_API, env, tty, email, password, token, client, config,
                   requests, loginResp, regResp, loginRes, regRes, out, todo,
                   pending, ending, exitStatus, uncaught>>

\* main, lines 77-78: the email of the environment is kept, or the line the
\* operator typed at the prompt is bound (it is not echoed to standard
\* output).
ResolveEmail ==
    /\ \/ At("email") /\ Truthy(email) /\ UNCHANGED email
       \/ At("email_wait") /\ \E typed \in TypedEmails : email' = Str(typed)
    /\ pc' = "password"
    /\ UNCHANGED <<JANUA_API, env, tty, password, token, client, config, requests,
                   loginResp, regResp, loginRes, regRes, out, line, todo, pending,
                   ending, exitStatus, uncaught>>

\* main, line 78: input() finds the end of input and raises EOFError, outside
\* any try block.
PromptEmailEOF ==
    /\ At("email_wait")
    /\ uncaught' = EmailEndOfInput(tty)
    /\ Exit(1)
    /\ UNCHANGED <<JANUA_API, env, tty, email, password, token, client, config,
                   requests, loginResp, regResp, loginRes, regRes, out, line, todo,
                   pending, exitStatus>>

\* main, lines 79-80: prompt for the password when the environment gave none.
\* getpass shows its prompt on the terminal device or on standard error, so
\* waiting for the answer changes nothing of the state.
ResolvePassword ==
    /\ At("password")
    /\ IF Truthy(password)
       THEN UNCHANGED password
       ELSE \E typed \in TypedPasswords : password' = Str(typed)
    /\ pc' = "announce"
    /\ UNCHANGED <<JANUA_API, env, tty, email, token, client, config, requests,
                   loginResp, regResp, loginRes, regRes, out, line, todo, pending,
                   ending, exitStatus, uncaught>>

\* main, line 80: getpass() raises EOFError, outside any try block.
PromptPasswordEOF ==
    /\ At("password")
    /\ ~Truthy(password)
    /\ uncaught' = PasswordEndOfInput
    /\ Exit(1)
    /\ UNCHANGED <<JANUA_API, env, tty, email, password, token, client, config,
                   requests, loginResp, regResp, loginRes, regRes, out, line,
                   todo, pending, exitStatus>>

\* main, lines 82-83.
Announce ==
    /\ At("announce")
    /\ todo' = <<"", "Logging in as " \o Format(email) \o "...">>
    /\ pc' = "login_call"
    /\ UNCHANGED <<JANUA_API, env, tty, email, password, token, client, config,
                   requests, loginResp, regResp, loginRes, regRes, out, line,
                   pending, ending, exitStatus, uncaught>>

\* main, line 86: login is entered (line 36); nothing is sent yet.
LoginCall ==
    /\ At("login_call")
    /\ pc' = "login_entered"
    /\ UNCHANGED <<JANUA_API, env, tty, email, password, token, client, config,
                   requests, loginResp, regResp, loginRes, regRes, out, line,
                   todo, pending, ending, exitStatus, uncaught>>

\* login, lines 38-41: requests.post sends the login request.
LoginRequest ==
    /\ At("login_entered")
    /\ requests' = Append(requests, LoginRequestOf(JANUA_API, email, password))
    /\ pc' = "login_wait"
    /\ UNCHANGED <<JANUA_API, env, tty, email, password, token, client, config,
                   loginResp, regResp, loginRes, regRes, out, line, todo, pending,
                   ending, exitStatus, uncaught>>

\* login, line 38: requests.post returns the response of the server.
LoginResponse ==
    /\ At("login_wait")
    /\ \E status \in LoginStatuses, text \in Bodies :
          loginResp' = Response(status, text)
    /\ pc' = "login_handle"
    /\ UNCHANGED <<JANUA_API, env, tty, email, password, token, client, config,
                   requests, regResp, loginRes, regRes, out, line, todo, pending,
                   ending, exitStatus, uncaught>>

\* login, lines 43-48: login returns or raises on the response.
LoginReturn ==
    /\ At("login_handle")
    /\ loginRes' = login(loginResp)
    /\ pc' = "login_done"
    /\ UNCHANGED <<JANUA_API, env, tty, email, password, token, client, config,
                   requests, loginResp, regResp, regRes, out, line, todo, pending,
                   ending, exitStatus, uncaught>>

\* login, lines 38-41: requests.post raises, and login with it.
LoginTransportError ==
    /\ At("login_wait")
    /\ \E module \in ConnectionModules, cause \in TransportCauses :
          loginRes' = TransportError(JANUA_API, LoginPath, module, cause)
    /\ pc' = "login_done"
    /\ UNCHANGED <<JANUA_API, env, tty, email, password, token, client, config,
                   requests, loginResp, regResp, regRes, out, line, todo, pending,
                   ending, exitStatus, uncaught>>

\* main, lines 86-89 and 92-97, once login() has an outcome: on a return the
\* token is bound and the prints up to the second try block follow; on an
\* Exception the handler prints it and goes on to sys.exit(1).
AfterLogin ==
    /\ At("login_done")
    /\ IF loginRes.kind = "return"
       THEN /\ token' = loginRes.val
            /\ todo' = <<"Login successful">> \o CreatingLines(config)
            /\ pc' = "register_call"
       ELSE /\ todo' = <<ErrorLine(loginRes)>>
            /\ pc' = "login_failed"
            /\ UNCHANGED token
    /\ UNCHANGED <<JANUA_API, env, tty, email, password, client, config, requests,
                   loginResp, regResp, loginRes, regRes, out, line, pending,
                   ending, exitStatus, uncaught>>

\* main, line 90: sys.exit(1) of the first handler.
LoginFailedExit ==
    /\ At("login_failed")
    /\ Exit(1)
    /\ UNCHANGED <<JANUA_API, env, tty, email, password, token, client, config,
                   requests, loginResp, regResp, loginRes, regRes, out, line,
                   todo, pending, exitStatus, uncaught>>

\* main, line 100: create_oauth_client is entered (line 51); nothing is sent
\* yet.
RegisterCall ==
    /\ At("register_call")
    /\ pc' = "register_entered"
    /\ UNCHANGED <<JANUA_API, env, tty, email, password, token, client, config,
                   requests, loginResp, regResp, loginRes, regRes, out, line,
                   todo, pending, ending, exitStatus, uncaught>>

\* create_oauth_client, lines 53-57: requests.post sends the registration
\* request.
RegisterRequest ==
    /\ At("register_entered")
    /\ requests' = Append(requests, RegisterRequestOf(JANUA_API, token, config))
    /\ pc' = "register_wait"
    /\ UNCHANGED <<JANUA_API, env, tty, email, password, token, client, config,
                   loginResp, regResp, loginRes, regRes, out, line, todo, pending,
                   ending, exitStatus, uncaught>>

\* create_oauth_client, line 53: requests.post returns the response.
RegisterResponse ==
    /\ At("register_wait")
    /\ \E status \in RegisterStatuses, text \in Bodies :
          regResp' = Response(status, text)
    /\ pc' = "register_handle"
    /\ UNCHANGED <<JANUA_API, env, tty, email, password, token, client, config,
                   requests, loginResp, loginRes, regRes, out, line, todo,
                   pending, ending, exitStatus, uncaught>>

\* create_oauth_client, lines 59-65: it returns or raises on the response.
RegisterReturn ==
    /\ At("register_handle")
    /\ regRes' = create_oauth_client(regResp)
    /\ pc' = "register_done"
    /\ UNCHANGED <<JANUA_API, env, tty, email, password, token, client, config,
                   requests, loginResp, regResp, loginRes, out, line, todo,
                   pending, ending, exitStatus, uncaught>>

\* create_oauth_client, lines 53-57: requests.post raises, and
\* create_oauth_client with it.
RegisterTransportError ==
    /\ At("register_wait")
    /\ \E module \in ConnectionModules, cause \in TransportCauses :
          regRes' = TransportError(JANUA_API, RegisterPath, module, cause)
    /\ pc' = "register_done"
    /\ UNCHANGED <<JANUA_API, env, tty, email, password, token, client, config,
                   requests, loginResp, regResp, loginRes, out, line, todo,
                   pending, ending, exitStatus, uncaught>>

\* main, lines 100-114, once create_oauth_client() has an outcome: on a
\* return the client is bound and the report follows, cut short by what
\* client.get raises; on an Exception the handler prints it.
AfterRegister ==
    /\ At("register_done")
    /\ IF regRes.kind = "return"
       THEN /\ client' = regRes.val
            /\ todo' = ClientReport(regRes.val).lines
            /\ pending' = ClientReport(regRes.val).exc
            /\ pc' = "report"
       ELSE /\ todo' = <<ErrorLine(regRes)>>
            /\ pc' = "register_failed"
            /\ UNCHANGED <<client, pending>>
    /\ UNCHANGED <<JANUA_API, env, tty, email, password, token, config, requests,
                   loginResp, regResp, loginRes, regRes, out, line, ending,
                   exitStatus, uncaught>>

\* main, lines 104 and 113-114: client.get raises in the report, the second
\* handler takes over.
ReportRaises ==
    /\ At("report")
    /\ pending.kind = "raise"
    /\ todo' = <<ErrorLine(pending)>>
    /\ pc' = "register_failed"
    /\ UNCHANGED <<JANUA_API, env, tty, email, password, token, client, config,
                   requests, loginResp, regResp, loginRes, regRes, out, line,
                   pending, ending, exitStatus, uncaught>>

\* main, line 111 was the last statement: main returns.
Finish ==
    /\ At("report")
    /\ pending.kind = "none"
    /\ Exit(0)
    /\ UNCHANGED <<JANUA_API, env, tty, email, password, token, client, config,
                   requests, loginResp, regResp, loginRes, regRes, out, line,
                   todo, pending, exitStatus, uncaught>>

\* The second handler after a failed registration, going back to the
\* registration instead of leaving.
RegisterFailedExit_Retry ==
    /\ At("register_failed")
    /\ pc' = "register_call"
    /\ UNCHANGED <<JANUA_API, env, tty, email, password, token, client, config,
                   requests, loginResp, regResp, loginRes, regRes, out, line,
                   todo, pending, ending, exitStatus, uncaught>>

\* main, line 115: sys.exit(1) of the second handler.
RegisterFailedExit ==
    /\ At("register_failed")
    /\ Exit(1)
    /\ UNCHANGED <<JANUA_API, env, tty, email, password, token, client, config,
                   requests, loginResp, regResp, loginRes, regRes, out, line,
                   todo, pending, exitStatus, uncaught>>

\* The run is inside login / create_oauth_client: entered, not yet returned.
InLogin == pc \in {"login_entered", "login_wait", "login_handle"}
InRegister == pc \in {"register_entered", "register_wait", "register_handle"}

\* ctrl-C (SIGINT) anywhere in main, lines 68-115: KeyboardInterrupt is raised
\* at the statement at hand.  It is not an Exception, so neither handler
\* (lines 88, 113) catches it; it leaves main, through login or
\* create_oauth_client when raised inside them, and the interpreter ends by
\* killing itself with SIGINT.  The prints not yet reached never run.
Interrupt ==
    /\ InMain
    /\ uncaught' = Interrupted
    /\ loginRes' = IF InLogin THEN Interrupted ELSE loginRes
    /\ regRes' = IF InRegister THEN Interrupted ELSE regRes
    /\ Exit(KilledBySigint)
    /\ UNCHANGED <<JANUA_API, env, tty, email, password, token, client, config,
                   requests, loginResp, regResp, out, line, todo, pending,
                   exitStatus>>

\* The interpreter has shut down: the process ends with the status main was
\* left with.
ProcessEnds ==
    /\ pc = "shutdown"
    /\ pc' = "exited"
    /\ exitStatus' = ending
    /\ UNCHANGED <<JANUA_API, env, tty, email, password, token, client, config,
                   requests, loginResp, regResp, loginRes, regRes, out, line,
                   todo, pending, ending, uncaught>>

\* SIGINT while the interpreter shuts down (after line 90, 115 or 111, or
\* after an exception left main): the default disposition is back, the
\* signal kills the process and no KeyboardInterrupt is raised.  Standard
\* output was flushed before.
ShutdownInterrupt ==
    /\ pc = "shutdown"
    /\ pc' = "exited"
    /\ exitStatus' = KilledBySigint
    /\ UNCHANGED <<JANUA_API, env, tty, email, password, token, client, config,
                   requests, loginResp, regResp, loginRes, regRes, out, line,
                   todo, pending, ending, uncaught>>

Next ==
    \/ PrintLine
    \/ Banner
    \/ GetEmail
    \/ GetPassword
    \/ PromptEmail
    \/ ResolveEmail
    \/ PromptEmailEOF
    \/ ResolvePassword
    \/ PromptPasswordEOF
    \/ Announce
    \/ LoginCall
    \/ LoginRequest
    \/ LoginResponse
    \/ LoginReturn
    \/ LoginTransportError
    \/ AfterLogin
    \/ LoginFailedExit
    \/ RegisterCall
    \/ RegisterRequest
    \/ RegisterResponse
    \/ RegisterReturn
    \/ RegisterTransportError
    \/ AfterRegister
    \/ ReportRaises
    \/ Finish
    \/ RegisterFailedExit
    \/ Interrupt
    \/ ProcessEnds
    \/ ShutdownInterrupt

Spec == Init /\ [][Next]_vars

TypeOK ==
    /\ pc \in {"start", "getenv_email", "getenv_password", "email", "email_wait",
               "password", "announce", "login_call", "login_entered",
               "login_wait", "login_handle", "login_done", "login_failed",
               "register_call", "register_entered", "register_wait",
               "register_handle", "register_done", "report", "register_failed",
               "shutdown", "exited"}
    /\ ending \in {Running, 0, 1, KilledBySigint}
    /\ exitStatus \in {Running, 0, 1, KilledBySigint}
    /\ pc = "exited" <=> exitStatus # Running
    /\ Len(requests) <= 2

(***************************************************************************)
(* Vocabulary of the properties.                                           *)
(***************************************************************************)
IsLoginRequest(r) == r.url = JANUA_API \o LoginPath
IsRegisterRequest(r) == r.url = JANUA_API \o RegisterPath
LoginRequestsSent == {i \in DOMAIN requests : IsLoginRequest(requests[i])}
RegisterRequestsSent == {i \in DOMAIN requests : IsRegisterRequest(requests[i])}
LastLine == out[Len(out)]
Printed(text) == \E i \in DOMAIN out : out[i] = text

\* The run is over, nothing left main uncaught (no end of input at a prompt,
\* no ctrl-C) and no signal ended the shutdown.
EndedHandled == pc = "exited" /\ uncaught = NotCalled /\ exitStatus = ending
\* login / create_oauth_client came to its own end on the response.
LoginEnded == loginResp # NoResponse /\ loginRes.kind # "none" /\ loginRes # Interrupted
RegisterEnded == regResp # NoResponse /\ regRes.kind # "none" /\ regRes # Interrupted

\* The message the server put in error.message of a body, when there is one.
HasServerMessage(text) ==
    /\ Loads(text).t = "dict"
    /\ "error" \in DOMAIN Loads(text).f
    /\ Loads(text).f.error.t = "dict"
    /\ "message" \in DOMAIN Loads(text).f.error.f
ServerMessage(text) == Format(Loads(text).f.error.f.message)
\* What the specification says an error for this body carries.
Carried(text) == IF HasServerMessage(text) THEN ServerMessage(text) ELSE text

\* C1: the registration request is sent only after login returned; a run in
\* which login failed (non-200 status or any raised exception) has printed
\* the error and exited with status 1 without a registration request.
C1_RegisterOnlyAfterLogin ==
    /\ \A i \in RegisterRequestsSent :
          /\ loginRes.kind = "return"
          /\ loginResp.status_code = HTTP_OK
          /\ \E k \in LoginRequestsSent : k < i
    /\ loginRes.kind = "raise" => RegisterRequestsSent = {}
    /\ (pc = "exited" /\ loginResp # NoResponse /\ loginResp.status_code # HTTP_OK)
          => loginRes.kind = "raise"
    /\ (pc = "exited" /\ loginRes.kind = "raise")
          => /\ exitStatus = 1
             /\ Len(out) > 0
             /\ LastLine = ErrorLine(loginRes)

\* The part of C1 that is about the order of the requests and about the
\* failures the handler on line 88 catches.
C1_RegisterOnlyAfterReturn ==
    /\ \A i \in RegisterRequestsSent :
          /\ loginRes.kind = "return"
          /\ loginResp.status_code = HTTP_OK
          /\ \E k \in LoginRequestsSent : k < i
    /\ loginRes.kind = "raise" => RegisterRequestsSent = {}
    /\ (EndedHandled /\ loginRes.kind = "raise")
          => exitStatus = 1 /\ LastLine = ErrorLine(loginRes)

\* C2: every run ends with exit status 0 or 1; 1 whenever login or
\* create_oauth_client fails, 0 only when login returned on 200 and
\* create_oauth_client returned a client record on 201; and no error
\* escapes main uncaught.
C2_ExitStatusAndNothingUncaught ==
    /\ uncaught = NotCalled
    /\ pc = "exited" =>
          /\ exitStatus \in {0, 1}
          /\ (loginRes.kind = "raise" \/ regRes.kind = "raise") => exitStatus = 1
          /\ (loginResp # NoResponse /\ loginResp.status_code # HTTP_OK) => exitStatus = 1
          /\ (regResp # NoResponse /\ regResp.status_code # HTTP_CREATED) => exitStatus = 1
          /\ exitStatus = 0 =>
                /\ loginResp.status_code = HTTP_OK /\ loginRes.kind = "return"
                /\ regResp.status_code = HTTP_CREATED /\ regRes.kind = "return"
                /\ regRes.val.t = "dict"

\* The part of C2 that is about the runs in which nothing leaves main.
C2_ExitStatusOfHandledRuns ==
    EndedHandled =>
          /\ exitStatus \in {0, 1}
          /\ (loginRes.kind = "raise" \/ regRes.kind = "raise") => exitStatus = 1
          /\ (loginResp # NoResponse /\ loginResp.status_code # HTTP_OK) => exitStatus = 1
          /\ (regResp # NoResponse /\ regResp.status_code # HTTP_CREATED) => exitStatus = 1
          /\ exitStatus = 0 =>
                /\ loginResp.status_code = HTTP_OK /\ loginRes.kind = "return"
                /\ regResp.status_code = HTTP_CREATED /\ regRes.kind = "return"
                /\ regRes.val.t = "dict"

\* C3: the bearer token of every registration request is a non-empty string
\* taken from the login response.
C3_BearerTokenNonEmpty ==
    \A i \in RegisterRequestsSent :
       /\ token.t = "str"
       /\ token.v # ""
       /\ requests[i].headers.Authorization = "Bearer " \o token.v

\* C4: on a login response with a status other than 200, login fails with
\* "Login failed: " followed by error.message when present and by the raw
\* body text otherwise, for every shape of body.
C4_LoginErrorCarriesMessage ==
    (LoginEnded /\ loginResp.status_code # HTTP_OK) =>
       loginRes = Raise("Exception", "Login failed: " \o Carried(loginResp.text))

\* C5: on a registration response whose status is neither 201 nor 409,
\* create_oauth_client fails with "Failed to create client: " followed by
\* error.message when present and by the raw body text otherwise; main
\* prints that text and exits with status 1.
C5_RegisterErrorCarriesMessage ==
    /\ (RegisterEnded /\ regResp.status_code \notin {HTTP_CREATED, HTTP_CONFLICT}) =>
          regRes = Raise("Exception",
                         "Failed to create client: " \o Carried(regResp.text))
    /\ (EndedHandled /\ regResp # NoResponse
          /\ regResp.status_code \notin {HTTP_CREATED, HTTP_CONFLICT}) =>
          /\ LastLine = "Error: Failed to create client: " \o Carried(regResp.text)
          /\ exitStatus = 1

AlreadyExists == Raise("Exception", "OAuth client already exists")

\* C6: on a registration response with status 409, whatever its body,
\* create_oauth_client fails with the "already exists" error, which no other
\* status produces; the run prints it, prints no client details, and exits
\* with status 1.
C6_ConflictIsAlreadyExists ==
    /\ (RegisterEnded /\ regResp.status_code = HTTP_CONFLICT) => regRes = AlreadyExists
    /\ (pc = "exited" /\ regResp.status_code = HTTP_CONFLICT) =>
          /\ regRes = AlreadyExists
          /\ Len(out) > 0
          /\ LastLine = "Error: OAuth client already exists"
          /\ ~Printed("Client Details:")
          /\ ~Printed("OAuth client created successfully!")
          /\ client = Unbound
          /\ exitStatus = 1
    /\ regResp.status_code # HTTP_CONFLICT =>
          /\ regRes # AlreadyExists
          /\ ~Printed("Error: OAuth client already exists")

\* The part of C6 that is about the runs in which nothing leaves main.
C6_ConflictWhenHandled ==
    /\ (RegisterEnded /\ regResp.status_code = HTTP_CONFLICT) => regRes = AlreadyExists
    /\ (EndedHandled /\ regResp.status_code = HTTP_CONFLICT) =>
          /\ regRes = AlreadyExists
          /\ LastLine = "Error: OAuth client already exists"
          /\ ~Printed("Client Details:")
          /\ ~Printed("OAuth client created successfully!")
          /\ client = Unbound
          /\ exitStatus = 1
    /\ regResp.status_code # HTTP_CONFLICT =>
          /\ regRes # AlreadyExists
          /\ ~Printed("Error: OAuth client already exists")

\* The token the claim C7 expects from a parsed status-200 login body.
ExpectedToken(d) ==
    IF "access_token" \in DOMAIN d.f /\ Truthy(d.f.access_token)
    THEN d.f.access_token
    ELSE IF "token" \in DOMAIN d.f THEN d.f.token ELSE None

\* C7: on every status-200 login response, login returns access_token when
\* present and non-empty and the token field otherwise; access_token takes
\* precedence when both are non-empty.
C7_TokenPrecedence ==
    (LoginEnded /\ loginResp.status_code = HTTP_OK) =>
       /\ loginRes.kind = "return"
       /\ Loads(loginResp.text).t = "dict"
       /\ loginRes.val = ExpectedToken(Loads(loginResp.text))

\* The part of C7 that is about the status-200 bodies that are JSON objects.
C7_TokenPrecedenceOfObjects ==
    (LoginEnded /\ loginResp.status_code = HTTP_OK /\ Loads(loginResp.text).t = "dict") =>
       /\ loginRes = Return(ExpectedToken(Loads(loginResp.text)))
       /\ token # Unbound => token = ExpectedToken(Loads(loginResp.text))
       /\ RegisterRequestsSent # {} => token # Unbound

\* The registration response holds a non-empty client_secret (whatever its
\* status), and that secret as it is printed.
HasSecret ==
    /\ regResp # NoResponse
    /\ Loads(regResp.text).t = "dict"
    /\ Truthy(Get(Loads(regResp.text), "client_secret", None))
Secret == Format(Loads(regResp.text).f.client_secret)

\* The body texts that contain the secret s, and the lines main can print
\* that display it: the client_secret line of the report, and the error line
\* of a failed registration, which echoes the raw body.
TextsShowing(s) ==
    { b[1] : b \in { x \in BodyTable : /\ x[2].t = "dict"
                                       /\ "client_secret" \in DOMAIN x[2].f
                                       /\ Truthy(x[2].f.client_secret)
                                       /\ Format(x[2].f.client_secret) = s } }
LinesShowing(s) ==
    {"  client_secret: " \o s}
       \cup {"Error: Failed to create client: " \o t : t \in TextsShowing(s)}

SecretShownAt ==
    IF HasSecret THEN {i \in DOMAIN out : out[i] \in LinesShowing(Secret)} ELSE {}
NoteShownAt == {i \in DOMAIN out : out[i] = SecretNote}

\* The registration answered 201 with an object holding a non-empty secret.
SecretReturned == HasSecret /\ regResp.status_code = HTTP_CREATED

\* C8: the client secret is shown at most once and only on the success
\* path: exactly when the 201 response holds a non-empty client_secret,
\* always followed by the one-time-disclosure note; neither is shown when
\* the secret is absent or the registration failed.
C8_SecretShownOnceWithNote ==
    EndedHandled =>
       /\ Cardinality(SecretShownAt) <= 1
       /\ SecretShownAt # {} => SecretReturned /\ exitStatus = 0
       /\ SecretReturned => SecretShownAt # {}
       /\ \A i \in SecretShownAt :
             /\ out[i] = "  client_secret: " \o Secret
             /\ i + 2 <= Len(out)
             /\ out[i + 1] = ""
             /\ out[i + 2] = SecretNote
       /\ NoteShownAt = {i + 2 : i \in SecretShownAt}

\* C9: the body of the registration request always equals the
\* OAUTH_CLIENT_CONFIG constant, which no step of the run modifies.
C9_PayloadIsTheConstant ==
    /\ config = OAUTH_CLIENT_CONFIG
    /\ \A i \in RegisterRequestsSent : requests[i].json = OAUTH_CLIENT_CONFIG

C9_Witness ==
    /\ RegisterRequestsSent # {}
    /\ token = Str("U")
    /\ email = Str("")

\* C10: at most one login request and at most one registration request are
\* sent; after a failed login or registration the run only prints the error
\* and leaves: nothing is retried, and nothing happens after the exit.
C10_NoRetry ==
    /\ Cardinality(LoginRequestsSent) <= 1
    /\ Cardinality(RegisterRequestsSent) <= 1
    /\ Len(requests) <= 2
    /\ loginRes.kind = "raise" =>
          /\ pc \in {"login_done", "login_failed", "shutdown", "exited"}
          /\ RegisterRequestsSent = {}
    /\ regRes.kind = "raise" =>
          pc \in {"register_done", "register_failed", "shutdown", "exited"}
    /\ regRes.kind = "return" =>
          pc \in {"register_done", "report", "register_failed", "shutdown", "exited"}
    /\ pc \in {"login_done", "login_failed", "register_done", "report",
               "register_failed", "shutdown"} =>
          /\ ~ENABLED LoginCall /\ ~ENABLED LoginRequest
          /\ ~ENABLED RegisterCall /\ ~ENABLED RegisterRequest
    /\ pc = "exited" => ~ENABLED Next

C10_Witness ==
    /\ regRes.kind = "raise"
    /\ regResp.status_code = 500
    /\ pc = "exited"
    /\ exitStatus = 1
    /\ Len(requests) = 2
====
